---- MODULE Spec2Model ----
(***************************************************************************)
(* Model of the KO dupId / dupFor binding handlers (src/dupId.js).         *)
(*                                                                         *)
(* The program state is the module-level table `ids`.  One call of a       *)
(* handler's init runs to completion, so each handler is one action.  The  *)
(* values a binding can pass are JavaScript values; they are modelled as   *)
(* tagged records so that typeof, truthiness and string conversion are     *)
(* computed the way the code computes them.  Numbers are kept in halves    *)
(* (Num(3) is 1.5) so that the Math.floor test can fail.                   *)
(***************************************************************************)
EXTENDS Integers, Sequences, FiniteSets, TLC

(***************************************************************************)
(* Bounds of the model.                                                    *)
(***************************************************************************)
MaxCount == 3   \* largest valid 'count' a binding passes

(***************************************************************************)
(* JavaScript values.                                                      *)
(***************************************************************************)
Undefined == [t |-> "undefined"]
Null      == [t |-> "null"]
Str(s)    == [t |-> "string", s |-> s]
Num(h)    == [t |-> "number", h |-> h]
Bool(b)   == [t |-> "boolean", b |-> b]
Obj(f)    == [t |-> "object", o |-> f]
Observable(v) == [t |-> "function", val |-> v]

typeof(v) == IF v.t = "null" THEN "object" ELSE v.t

Truthy(v) ==
    CASE v.t = "string"  -> v.s # ""
      [] v.t = "number"  -> v.h # 0
      [] v.t = "boolean" -> v.b
      [] v.t \in {"undefined", "null"} -> FALSE
      [] OTHER -> TRUE

floor(v) == Num(2 * (v.h \div 2))

Min(a, b) == IF a < b THEN a ELSE b

Digits == <<"0", "1", "2", "3", "4", "5", "6", "7", "8", "9">>

RECURSIVE natToString(_)
natToString(n) ==
    IF n < 10 THEN Digits[n + 1]
    ELSE natToString(n \div 10) \o Digits[(n % 10) + 1]

toString(v) ==
    CASE v.t = "string"    -> v.s
      [] v.t = "number"    ->
            LET a == IF v.h < 0 THEN -v.h ELSE v.h
            IN  (IF v.h < 0 THEN "-" ELSE "") \o natToString(a \div 2)
                    \o (IF a % 2 = 1 THEN ".5" ELSE "")
      [] v.t = "boolean"   -> IF v.b THEN "true" ELSE "false"
      [] v.t = "undefined" -> "undefined"
      [] v.t = "null"      -> "null"
      [] v.t = "function"  -> "function"
      [] OTHER             -> "[object Object]"

unwrapObservable(v) == IF v.t = "function" THEN v.val ELSE v

(***************************************************************************)
(* generateId: six characters, each charAt(floor(random * 62)).  The draw  *)
(* is an input of the action: r[i] is the index of the i-th character.     *)
(***************************************************************************)
possible ==
    << "A", "B", "C", "D", "E", "F", "G", "H", "I", "J", "K", "L", "M",
       "N", "O", "P", "Q", "R", "S", "T", "U", "V", "W", "X", "Y", "Z",
       "a", "b", "c", "d", "e", "f", "g", "h", "i", "j", "k", "l", "m",
       "n", "o", "p", "q", "r", "s", "t", "u", "v", "w", "x", "y", "z",
       "0", "1", "2", "3", "4", "5", "6", "7", "8", "9" >>

possible_len == Len(possible)

id_length == 6

RECURSIVE join(_)
join(letters) ==
    IF letters = <<>> THEN "" ELSE Head(letters) \o join(Tail(letters))

generateId(r) == join([i \in 1..id_length |-> possible[r[i] + 1]])

\* the draws the model explores: two, so that two tokens can differ or collide
Draws == { <<0, 0, 0, 0, 0, 0>>, <<26, 52, 0, 61, 25, 1>> }

\* outcomes enough for a third token that differs from the two before it
FreshDraws == Draws \cup { <<1, 0, 0, 0, 0, 0>> }

(***************************************************************************)
(* The values bindings pass.                                               *)
(***************************************************************************)
Prefixes == {"r1"}

Absent == [t |-> "absent"]

\* a binding's value, written the shortest way: 'r1', 3, {} or an object
MkParams(a, c, p, cl) ==
    LET given == [attr |-> a, count |-> c, prefix |-> p, clear |-> cl]
        keys  == { k \in {"attr", "count", "prefix", "clear"} : given[k] # Absent }
    IN  IF keys = {"prefix"} /\ p.t = "string" THEN p
        ELSE IF keys = {"count"} /\ c.t = "number" THEN c
        ELSE IF keys = {} THEN Undefined
        ELSE Obj([k \in keys |-> given[k]])

ValidParams ==
    { MkParams(a, c, p, Absent) :
        a \in {Absent, Str("name")},
        c \in {Absent} \cup { Num(2 * n) : n \in (1..MaxCount) \ {2} },
        p \in {Absent} \cup { Str(q) : q \in Prefixes } }
      \cup
    { MkParams(Absent, c, p, Bool(TRUE)) :
        c \in {Absent} \cup { Num(2 * n) : n \in (1..MaxCount) \ {2} },
        p \in {Absent} \cup { Str(q) : q \in Prefixes } }

InvalidParams ==
    { MkParams(Str("href"), Absent, Absent, cl) : cl \in {Absent, Bool(TRUE)} }
      \cup { MkParams(Absent, Num(0), Absent, Bool(TRUE)),
             MkParams(Absent, Num(3), Absent, Absent),
             MkParams(Absent, Str("2"), Absent, Absent),
             MkParams(Absent, Absent, Num(14), Bool(TRUE)),
             MkParams(Absent, Absent, Absent, Str("yes")),
             MkParams(Observable(Str("id")), Absent, Absent, Absent) }

\* a binding whose value, count and prefix are observables, and a null value
ObservableParams ==
    { Observable(Undefined), Null,
      MkParams(Absent, Observable(Num(2)), Observable(Str("r1")), Absent) }

Params == ValidParams \cup ObservableParams \cup InvalidParams

\* the values of the bindings whose history is recorded
ObservedParams == ValidParams

(***************************************************************************)
(* State.                                                                  *)
(***************************************************************************)
VARIABLES
    ids,        \* { "_<prefix>": [ id, count, <bool: id-attr-set-already> ] }
    element,    \* attributes of the element the latest call was bound to
    thrown,     \* the Error the latest call threw, NoError if it returned
    options,    \* the options the latest call resolved
    run,        \* history, per key: the requests since its entry was created
    call,       \* history: how the latest call met the table
    page        \* history: the ids set on the elements bound so far

vars == <<ids, element, thrown, options, run, call, page>>

NoError == [text |-> "", arg |-> ""]

\* new Error("ko.bindingHandlers." + bhName + text + arg): the text and the value
\* it names; the handler name in front is left out
Error(text, arg) == [text |-> text, arg |-> arg]

delete_nothing(obj, k) == obj

\* delete obj[k]
delete(obj, k) == [x \in DOMAIN obj \ {k} |-> obj[x]]

NoIds == delete(<<>>, "_")

\* lines 79-97: defaults, then the three shapes of params
resolve(attr, params) ==
    LET defaults == [attr   |-> Str(attr),
                     count  |-> Num(4),
                     clear  |-> Bool(FALSE),
                     prefix |-> Str("")]
    IN  CASE typeof(params) = "string" -> [defaults EXCEPT !.prefix = params]
          [] typeof(params) = "number" -> [defaults EXCEPT !.count = params]
          [] params # Null /\ typeof(params) = "object" ->
                LET in(k) == k \in DOMAIN params.o
                IN  [attr   |-> IF in("attr") THEN params.o["attr"] ELSE defaults.attr,
                     count  |-> unwrapObservable(
                                  IF in("count") THEN params.o["count"] ELSE defaults.count),
                     prefix |-> unwrapObservable(
                                  IF in("prefix") THEN params.o["prefix"] ELSE defaults.prefix),
                     clear  |-> IF in("clear") THEN params.o["clear"] ELSE defaults.clear]
          [] OTHER -> defaults

\* lines 98-114: the message of the first failing test, "" if all pass
invalid(o) ==
    IF typeof(o.attr) # "string" \/ o.attr.s \notin {"id", "for", "name"}
    THEN ": invalid attr: "
    ELSE IF typeof(o.count) # "number" \/ floor(o.count) # o.count \/ o.count.h <= 0
    THEN ": invalid count, got: "
    ELSE IF Truthy(o.prefix) /\ typeof(o.prefix) # "string"
    THEN ": invalid prefix, expecting string, got: "
    ELSE IF typeof(o.clear) # "boolean"
    THEN ": invalid clear, expecting boolean, got: "
    ELSE ""

invalidArg(o) ==
    CASE invalid(o) = ": invalid attr: "        -> toString(o.attr)
      [] invalid(o) = ": invalid count, got: "  -> toString(o.count)
      [] invalid(o) = ": invalid prefix, expecting string, got: " -> toString(o.prefix)
      [] OTHER -> toString(o.clear)

\* line 119
key(o) == "_" \o toString(o.prefix)

clear_always(o, ids0) == NoIds

clear_never(o, ids0) == ids0

\* lines 115-117
clear(o, ids0) == IF Truthy(o.clear) THEN NoIds ELSE ids0

done_late(duped_id) == duped_id[2] < 0

done_never(duped_id) == FALSE

\* line 122, after the decrement: done, remove it
done(duped_id) == duped_id[2] <= 0

tooMany_early(o, duped_id) == Truthy(o.prefix) /\ duped_id[2] <= 0

\* line 125: only a problem for explicitly prefixed
tooMany(o, duped_id) == Truthy(o.prefix) /\ duped_id[2] < 0

again_recount(o, entry) == [entry EXCEPT ![2] = Min(@, o.count.h \div 2) - 1]

\* lines 121-122: duped_id of a repeated invocation, decremented
again(o, entry) == [entry EXCEPT ![2] = @ - 1]

new_countAsRemaining(o, r) == <<generateId(r), o.count.h \div 2, FALSE>>

\* line 129: duped_id of a new invocation
new(o, r) == <<generateId(r), (o.count.h \div 2) - 1, FALSE>>

\* lines 120-131: duped_id and the table after the lookup, and the throw
lookup(o, r, ids1) ==
    LET _prefix  == key(o)
        called   == _prefix \in DOMAIN ids1
        duped_id == IF called THEN again(o, ids1[_prefix]) ELSE new(o, r)
    IN  [called   |-> called,
         duped_id |-> duped_id,
         ids      |-> IF called
                      THEN IF done(duped_id) THEN delete(ids1, _prefix)
                           ELSE [ids1 EXCEPT ![_prefix] = duped_id]
                      ELSE (_prefix :> duped_id) @@ ids1,
         thrown   |-> IF called /\ tooMany(o, duped_id)
                      THEN Error(": called too many times for '", toString(o.prefix))
                      ELSE NoError]

claim_unchecked(o, found) ==
    LET _prefix == key(o)
        set     == [found.duped_id EXCEPT ![3] = TRUE]
    IN  [ids |-> IF o.attr.s = "id" /\ _prefix \in DOMAIN found.ids
                 THEN [found.ids EXCEPT ![_prefix] = set] ELSE found.ids,
         element |-> (o.attr.s :> (toString(o.prefix) \o found.duped_id[1])),
         thrown |-> NoError]

claim_restoring(o, found) ==
    LET _prefix == key(o)
        set     == [found.duped_id EXCEPT ![3] = TRUE]
        before  == [found.duped_id EXCEPT ![2] = @ + 1]
    IN  IF o.attr.s = "id"
        THEN IF found.duped_id[3]
             THEN [ids |-> (_prefix :> before) @@ found.ids, element |-> <<>>,
                   thrown |-> Error(": called twice on id attribute", "")]
             ELSE [ids |-> IF _prefix \in DOMAIN found.ids
                           THEN [found.ids EXCEPT ![_prefix] = set]
                           ELSE found.ids,
                   element |-> (o.attr.s :> (toString(o.prefix) \o set[1])),
                   thrown |-> NoError]
        ELSE [ids |-> found.ids,
              element |-> (o.attr.s :> (toString(o.prefix) \o found.duped_id[1])),
              thrown |-> NoError]

claim_setFirst(o, found) ==
    LET _prefix == key(o)
        set     == [found.duped_id EXCEPT ![3] = TRUE]
    IN  [ids |-> IF o.attr.s = "id" /\ _prefix \in DOMAIN found.ids
                 THEN [found.ids EXCEPT ![_prefix] = set] ELSE found.ids,
         element |-> (o.attr.s :> (toString(o.prefix) \o found.duped_id[1])),
         thrown |-> IF o.attr.s = "id" /\ found.duped_id[3]
                    THEN Error(": called twice on id attribute", "")
                    ELSE NoError]

\* lines 132-138: the id-attribute flag, then setAttribute.  duped_id is the
\* array the table holds, so the flag is set in the table if the entry is
\* still there.
claim(o, found) ==
    LET _prefix == key(o)
        set     == [found.duped_id EXCEPT ![3] = TRUE]
    IN  IF o.attr.s = "id"
        THEN IF found.duped_id[3]
             THEN [ids |-> found.ids, element |-> <<>>,
                   thrown |-> Error(": called twice on id attribute", "")]
             ELSE [ids |-> IF _prefix \in DOMAIN found.ids
                           THEN [found.ids EXCEPT ![_prefix] = set]
                           ELSE found.ids,
                   element |-> (o.attr.s :> (toString(o.prefix) \o set[1])),
                   thrown |-> NoError]
        ELSE [ids |-> found.ids,
              element |-> (o.attr.s :> (toString(o.prefix) \o found.duped_id[1])),
              thrown |-> NoError]

NoEntry == <<"", 0, FALSE>>

dupId_init_clearFirst(attr, params, r, ids0) ==
    LET o     == resolve(attr, unwrapObservable(params))
        found == lookup(o, r, clear(o, ids0))
    IN  IF invalid(o) # ""
        THEN [options |-> o, called |-> FALSE, duped_id |-> NoEntry,
              ids |-> clear(o, ids0), element |-> <<>>,
              thrown |-> Error(invalid(o), invalidArg(o))]
        ELSE IF found.thrown # NoError
        THEN [options |-> o, called |-> found.called, duped_id |-> found.duped_id,
              ids |-> found.ids, element |-> <<>>, thrown |-> found.thrown]
        ELSE [options |-> o, called |-> found.called, duped_id |-> found.duped_id]
                 @@ claim(o, found)

\* lines 75-139: what one call leaves behind
dupId_init(attr, params, r, ids0) ==
    LET o     == resolve(attr, unwrapObservable(params))
        found == lookup(o, r, clear(o, ids0))
    IN  IF invalid(o) # ""
        THEN [options |-> o, called |-> FALSE, duped_id |-> NoEntry,
              ids |-> ids0, element |-> <<>>,
              thrown |-> Error(invalid(o), invalidArg(o))]
        ELSE IF found.thrown # NoError
        THEN [options |-> o, called |-> found.called, duped_id |-> found.duped_id,
              ids |-> found.ids, element |-> <<>>, thrown |-> found.thrown]
        ELSE [options |-> o, called |-> found.called, duped_id |-> found.duped_id]
                 @@ claim(o, found)

(***************************************************************************)
(* History.  A run is the sequence of valid requests for one key that      *)
(* starts with the request that created the key's entry; a clear ends      *)
(* every run.  n is the count the run was created with, calls the number   *)
(* of its requests, idc how many of them resolved to attr "id" (2 stands   *)
(* for two or more), val the string its first request was to set, err the  *)
(* text of the Error its last request threw, kept once the entry has left  *)
(* the table.                                                              *)
(* call describes the latest request: the keys the table had before it,    *)
(* whether it found its key (after the clear), the run of its key as it    *)
(* was before the request, idc of that run with this request counted, and  *)
(* left, the value of duped_id[1] when the lookup was over (lines 121,     *)
(* 129).                                                                   *)
(***************************************************************************)
NoRun == [n |-> 0, calls |-> 0, idc |-> 0, val |-> "", err |-> ""]

NoCall == [valid |-> FALSE, key |-> "", had |-> {}, called |-> FALSE,
           idc |-> 0, left |-> 0, prev |-> NoRun]

NoOptions == [attr |-> Undefined, count |-> Undefined,
              clear |-> Undefined, prefix |-> Undefined]

record(res, ids0) ==
    LET o     == res.options
        k     == key(o)
        run1  == IF o.clear.b THEN NoIds ELSE run
        prev  == IF k \in DOMAIN run1 THEN run1[k] ELSE NoRun
        isId  == IF o.attr.s = "id" THEN 1 ELSE 0
        first == [n |-> o.count.h \div 2, calls |-> 1, idc |-> isId,
                  val |-> toString(o.prefix) \o res.duped_id[1], err |-> ""]
        next  == [prev EXCEPT !.calls = @ + 1, !.idc = Min(2, @ + isId)]
        this  == IF res.called THEN next ELSE first
        \* once the entry has left the table only n, calls and val are kept,
        \* with the error its last request ended in
        kept  == IF k \in DOMAIN res.ids THEN this
                 ELSE [this EXCEPT !.idc = 0, !.err = res.thrown.text]
    IN  [run  |-> IF ~res.called THEN (k :> kept) @@ run1
                  ELSE IF prev # NoRun THEN [run1 EXCEPT ![k] = kept]
                  ELSE run1,
         call |-> [valid |-> TRUE, key |-> k, had |-> DOMAIN ids0,
                   called |-> res.called, idc |-> this.idc,
                   left |-> res.duped_id[2],
                   prev |-> [prev EXCEPT !.idc = 0]]]

\* the elements bound so far: the tokens generateId returned for them, the
\* values set as their "id" attribute, and whether one was set twice
NoPage == [issued |-> {}, ids |-> {}, twice |-> FALSE]

Init ==
    /\ ids = NoIds
    /\ element = <<>>
    /\ thrown = NoError
    /\ options = NoOptions
    /\ run = NoIds
    /\ call = NoCall
    /\ page = NoPage

\* one call of a handler's init, bound to a new element
init(attr, params, r) ==
    \E res \in {dupId_init(attr, params, r, ids)} :
        /\ ids' = res.ids
        /\ element' = res.element
        /\ thrown' = res.thrown
        /\ options' = res.options

\* the same call with its history recorded
observed(attr, params, r) ==
    \E res \in {dupId_init(attr, params, r, ids)} :
        /\ ids' = res.ids
        /\ element' = res.element
        /\ thrown' = res.thrown
        /\ options' = res.options
        /\ IF invalid(res.options) # ""
           THEN run' = run /\ call' = NoCall
           ELSE \E h \in {record(res, ids)} :
                    /\ run' = h.run
                    /\ call' = h.call
                    /\ h.call.prev.calls <= MaxCount + 1
        /\ UNCHANGED page

\* Math.random is drawn from on the new-invocation path only (line 129)
draws(attr, params) ==
    LET o == resolve(attr, unwrapObservable(params))
    IN  IF invalid(o) = "" /\ key(o) \notin DOMAIN clear(o, ids)
        THEN Draws ELSE {CHOOSE r \in Draws : TRUE}

\* lines 62-70 and 161: kbh.dupId, attr = attr || 'id'
dupId ==
    /\ \E params \in Params : \E r \in draws("id", params) : init("id", params, r)
    /\ UNCHANGED <<run, call, page>>

\* lines 71-73 and 162: kbh.dupFor
dupFor ==
    /\ \E params \in Params : \E r \in draws("for", params) : init("for", params, r)
    /\ UNCHANGED <<run, call, page>>

Next == dupId \/ dupFor

Spec == Init /\ [][Next]_vars

dupIdObserved ==
    \E params \in ObservedParams : \E r \in draws("id", params) :
        observed("id", params, r)

dupForObserved ==
    \E params \in ObservedParams : \E r \in draws("for", params) :
        observed("for", params, r)

NextObserved == dupIdObserved \/ dupForObserved

SpecObserved == Init /\ [][NextObserved]_vars

\* the call on a page where generateId never repeats a token: a draw that
\* would is not taken
fresh(attr, params, r) ==
    \E res \in {dupId_init(attr, params, r, ids)} :
        LET made == invalid(res.options) = "" /\ ~res.called
            set  == res.thrown = NoError /\ res.options.attr.s = "id"
        IN  /\ made => res.duped_id[1] \notin page.issued
            /\ ids' = res.ids
            /\ element' = res.element
            /\ thrown' = res.thrown
            /\ options' = res.options
            /\ page' = [issued |-> IF made THEN page.issued \cup {res.duped_id[1]}
                                   ELSE page.issued,
                        ids    |-> IF set THEN page.ids \cup {res.element["id"]}
                                   ELSE page.ids,
                        twice  |-> page.twice
                                     \/ (set /\ res.element["id"] \in page.ids)]
            /\ UNCHANGED <<run, call>>

freshDraws(attr, params) ==
    LET o == resolve(attr, unwrapObservable(params))
    IN  IF invalid(o) = "" /\ key(o) \notin DOMAIN clear(o, ids)
        THEN FreshDraws ELSE {CHOOSE r \in FreshDraws : TRUE}

dupIdFresh ==
    \E params \in Params : \E r \in freshDraws("id", params) :
        fresh("id", params, r)

dupForFresh ==
    \E params \in Params : \E r \in freshDraws("for", params) :
        fresh("for", params, r)

NextFresh == dupIdFresh \/ dupForFresh

SpecFresh == Init /\ [][NextFresh]_vars

(***************************************************************************)
(* The three kinds of failure, told apart by the text of the Error.        *)
(***************************************************************************)
ConfigurationError ==
    thrown.text \in { ": invalid attr: ", ": invalid count, got: ",
                      ": invalid prefix, expecting string, got: ",
                      ": invalid clear, expecting boolean, got: " }

TooManyInvocationsError == thrown.text = ": called too many times for '"

DuplicateIdClaimError == thrown.text = ": called twice on id attribute"

\* the latest call was a request whose options passed every test
requested == invalid(options) = ""

\* the string the latest call set on its element, "" if it set none
written == IF DOMAIN element = {} THEN "" ELSE element[options.attr.s]

(***************************************************************************)
(* C1.  A key with no entry is requested n times in a row by valid         *)
(* requests without clear, the first carrying count n, at most one of them *)
(* resolving to attr "id": every one of the n requests succeeds and sets   *)
(* the same string, prefix + token.  Stated on the latest request of a     *)
(* run: if it is at most the n-th of its run, and the run has at most one  *)
(* "id" request so far, it returned and set the string of the run's first  *)
(* request, which is the prefix followed by a generated token.             *)
(***************************************************************************)
C1_SameIdForCountRequests ==
    (call.valid /\ call.key \in DOMAIN run
       /\ run[call.key].calls <= run[call.key].n /\ call.idc <= 1)
    => /\ thrown = NoError
       /\ element = (options.attr.s :> run[call.key].val)
       /\ \E r \in Draws : run[call.key].val = toString(options.prefix) \o generateId(r)

C1_Witness ==
    /\ call.valid /\ call.key = "_r1" /\ call.called
    /\ run["_r1"].n = 3 /\ run["_r1"].calls = 3 /\ call.idc = 1
    /\ thrown = NoError /\ written = run["_r1"].val

(***************************************************************************)
(* C2 as stated.  For every non-empty prefix and every count n: once the   *)
(* entry created with count n has been requested n times (no clear in      *)
(* between), the next request for the prefix fails with "called too many   *)
(* times".                                                                 *)
(***************************************************************************)
C2_TooManyAfterCount ==
    (call.valid /\ Truthy(options.prefix)
       /\ call.prev.n >= 1 /\ call.prev.calls = call.prev.n)
    => TooManyInvocationsError

(***************************************************************************)
(* C2 amended.  For a non-empty prefix, the request that follows the n     *)
(* requests of a run fails with "called too many times" only if n = 1.     *)
(* If n >= 2 the n-th request has removed the entry, and the (n+1)-th      *)
(* takes the new-invocation path and returns.                              *)
(***************************************************************************)
C2_TooManyOnlyAfterCountOne ==
    (call.valid /\ Truthy(options.prefix)
       /\ call.prev.n >= 1 /\ call.prev.calls = call.prev.n)
    => IF call.prev.n = 1
       THEN TooManyInvocationsError /\ call.called
       ELSE thrown = NoError /\ ~call.called /\ call.key \notin call.had

C2_Witness ==
    /\ call.valid /\ options.prefix = Str("r1") /\ ~options.clear.b
    /\ call.prev.n = 2 /\ call.prev.calls = 2
    /\ thrown = NoError /\ written # ""

(***************************************************************************)
(* C3.  A request that does not carry clear: true leaves the entry of      *)
(* every other key as it was: present or absent as before, with the same   *)
(* token, remaining count and flag.  This holds whether the request        *)
(* creates, decrements or removes its own entry, or fails.                 *)
(***************************************************************************)
C3_OtherPrefixUntouched ==
    [][ options'.clear # Bool(TRUE)
          => \A k \in (DOMAIN ids \cup DOMAIN ids') \ {key(options')} :
                 /\ k \in DOMAIN ids
                 /\ k \in DOMAIN ids'
                 /\ ids'[k] = ids[k] ]_vars

C3_Witness ==
    /\ requested /\ options.prefix = Str("r1") /\ options.clear = Bool(FALSE)
    /\ TooManyInvocationsError
    /\ "_" \in DOMAIN ids /\ ids["_"][2] = 1 /\ ids["_"][3]

(***************************************************************************)
(* C4.  A valid request with clear: true discards every entry before its   *)
(* lookup: it takes the new-invocation path even if its key had an entry,  *)
(* it returns, and it leaves exactly one entry, its own, with remaining =  *)
(* count - 1.  No entry made before a clear is read after it: every entry  *)
(* in the table, and every entry a repeated invocation returns, belongs to *)
(* a run that began after the last clear.                                  *)
(***************************************************************************)
C4_ClearDiscardsEverything ==
    /\ (call.valid /\ options.clear.b)
         => /\ ~call.called
            /\ thrown = NoError
            /\ DOMAIN ids = {call.key}
            /\ ids[call.key][2] = (options.count.h \div 2) - 1
            /\ written = toString(options.prefix) \o ids[call.key][1]
    /\ DOMAIN ids \subseteq DOMAIN run
    /\ (call.valid /\ call.called) => call.prev # NoRun

C4_Witness ==
    /\ call.valid /\ options.clear.b /\ options.prefix = Str("r1")
    /\ call.had = {"_", "_r1"}
    /\ DOMAIN ids = {"_r1"} /\ ids["_r1"][2] = 2

C6_ConfigurationErrorKeepsRegistry ==
    [][ ConfigurationError' => ids' = ids ]_vars

C6_Witness ==
    /\ ConfigurationError /\ options.clear = Bool(TRUE)
    /\ DOMAIN ids = {"_", "_r1"}

(***************************************************************************)
(* C7.  On the non-prefixed key with the default count of 2: the request   *)
(* that finds no entry creates one and returns; the second request of the  *)
(* run (the run having at most one "id" request) returns the same string   *)
(* and removes the entry; the request after those two takes the            *)
(* new-invocation path, returns, and leaves a new entry with a generated   *)
(* token.  So requests 2k-1 and 2k share an entry and 2k+1 starts one.     *)
(***************************************************************************)
C7_DefaultPairsThenNew ==
    (call.valid /\ call.key = "_" /\ ~options.clear.b)
    => /\ (~call.called /\ options.count = Num(4))
            => /\ thrown = NoError
               /\ "_" \in DOMAIN ids /\ ids["_"][2] = 1
               /\ \E r \in Draws : ids["_"][1] = generateId(r) /\ written = generateId(r)
       /\ (call.called /\ call.prev.n = 2 /\ call.prev.calls = 1 /\ call.idc <= 1)
            => /\ thrown = NoError
               /\ written = call.prev.val
               /\ "_" \notin DOMAIN ids
       /\ (call.prev.n = 2 /\ call.prev.calls = 2) => ~call.called

C7_Witness ==
    /\ call.valid /\ call.key = "_" /\ ~options.clear.b
    /\ options.count = Num(4) /\ options.attr = Str("id")
    /\ call.prev.n = 2 /\ call.prev.calls = 2 /\ ~call.called
    /\ thrown = NoError /\ written # call.prev.val

(***************************************************************************)
(* C8 as stated.  The token of an entry created with count n is returned   *)
(* by at most n requests: a request for the key that follows the n         *)
(* requests of the run never returns the entry of that run.                *)
(***************************************************************************)
C8_TokenReturnedAtMostCountTimes ==
    (call.valid /\ call.prev.n >= 1 /\ call.prev.calls >= call.prev.n
       /\ thrown = NoError)
    => ~call.called

(***************************************************************************)
(* C9.  A request that throws sets no attribute; a request that returns    *)
(* has set one attribute, the one its options name, to prefix + token.     *)
(***************************************************************************)
C9_FailedRequestSetsNoAttribute ==
    /\ thrown # NoError => element = <<>>
    /\ (requested /\ thrown = NoError)
         => /\ DOMAIN element = {options.attr.s}
            /\ \E r \in Draws : written = toString(options.prefix) \o generateId(r)

C9_Witness ==
    /\ requested /\ DuplicateIdClaimError /\ element = <<>>
    /\ options.prefix = Str("r1") /\ "_r1" \notin DOMAIN ids

(***************************************************************************)
(* C10.  count is read only by the request that creates an entry.  A       *)
(* repeated request, whatever count it carries, decrements the remaining   *)
(* count by one and nothing else: the entry stays with remaining - 1 and   *)
(* the same token, or is removed when remaining - 1 <= 0.  The entry a     *)
(* request creates has remaining = count - 1.                              *)
(***************************************************************************)
C10_CountReadOnlyAtCreation ==
    [][ invalid(options') = ""
          => LET k == key(options')
             IN  IF k \in DOMAIN clear(options', ids)
                 THEN IF ids[k][2] - 1 <= 0
                      THEN k \notin DOMAIN ids'
                      ELSE /\ k \in DOMAIN ids'
                           /\ ids'[k][1] = ids[k][1]
                           /\ ids'[k][2] = ids[k][2] - 1
                 ELSE /\ k \in DOMAIN ids'
                      /\ ids'[k][2] = (options'.count.h \div 2) - 1 ]_vars

C10_Witness ==
    /\ requested /\ ~options.clear.b /\ options.count = Num(2)
    /\ "_" \in DOMAIN ids /\ key(options) = "_" /\ ids["_"][2] = 1

(***************************************************************************)
(* C11 as stated.  The table holds at most one entry per key (it is a      *)
(* function of the key).  Between calls no entry has remaining 0, and a    *)
(* request without clear removes its entry exactly when the decrement      *)
(* brings remaining to 0 and at no other value.                            *)
(***************************************************************************)
C11_RemovedExactlyAtZero ==
    [][ /\ \A k \in DOMAIN ids' : ids'[k][2] # 0
        /\ (invalid(options') = "" /\ ~options'.clear.b /\ key(options') \in DOMAIN ids)
             => (key(options') \notin DOMAIN ids' <=> ids[key(options')][2] - 1 = 0) ]_vars

(***************************************************************************)
(* C12.  Every entry in the table has 0 <= remaining <= n - 1, n the count *)
(* it was created with; inside a call, right after the decrement (or the   *)
(* creation), remaining is between -1 and n - 1.                           *)
(***************************************************************************)
C12_RemainingInRange ==
    /\ \A k \in DOMAIN ids :
          /\ k \in DOMAIN run
          /\ ids[k][2] \in 0 .. (run[k].n - 1)
    /\ call.valid =>
          /\ call.key \in DOMAIN run
          /\ call.left \in -1 .. (run[call.key].n - 1)

\* a decrement took remaining to -1, and an entry sits at its upper limit
C12_Witness ==
    /\ call.valid /\ call.called /\ call.left = -1
    /\ \E k \in DOMAIN ids : ids[k][2] = run[k].n - 1 /\ run[k].n = MaxCount

(***************************************************************************)
(* C13.  A request that fails with "called twice on id attribute" found    *)
(* its entry, and leaves it with remaining one less than before, or out of *)
(* the table if that brought remaining to 0 (or below).                    *)
(***************************************************************************)
C13_DuplicateConsumesAUse ==
    [][ DuplicateIdClaimError' =>
          LET _prefix == key(options')
          IN  /\ _prefix \in DOMAIN ids
              /\ IF ids[_prefix][2] - 1 <= 0
                 THEN _prefix \notin DOMAIN ids'
                 ELSE /\ _prefix \in DOMAIN ids'
                      /\ ids'[_prefix] = [ids[_prefix] EXCEPT ![2] = @ - 1] ]_vars

\* the failed request left its entry behind with one use fewer
C13_Witness ==
    /\ DuplicateIdClaimError
    /\ key(options) \in DOMAIN ids
    /\ ids[key(options)][2] = MaxCount - 2
    /\ ids[key(options)][3]

(***************************************************************************)
(* C14 as stated.  A request with an empty or absent prefix never fails    *)
(* with "called too many times".  A repeat request whose decrement takes   *)
(* remaining below 0 removes the entry; without a prefix it returns and    *)
(* sets the old token, with a prefix it fails with "called too many        *)
(* times" naming the prefix.                                               *)
(***************************************************************************)
C14_NoPrefixStillSucceeds ==
    /\ (call.valid /\ ~Truthy(options.prefix)) => ~TooManyInvocationsError
    /\ (call.valid /\ call.called /\ call.left < 0) =>
          /\ call.key \notin DOMAIN ids
          /\ IF Truthy(options.prefix)
             THEN /\ TooManyInvocationsError
                  /\ thrown.arg = toString(options.prefix)
             ELSE /\ thrown = NoError
                  /\ written = call.prev.val

(***************************************************************************)
(* C15.  "called too many times" is thrown only by a repeat request on an  *)
(* entry that was created with count 1.                                    *)
(***************************************************************************)
C15_TooManyOnlyForCountOne ==
    TooManyInvocationsError =>
        /\ call.valid /\ call.called
        /\ call.prev.n = 1

\* the failing request itself asked for count MaxCount
C15_Witness ==
    /\ TooManyInvocationsError
    /\ call.prev.n = 1
    /\ options.count = Num(2 * MaxCount)

(***************************************************************************)
(* C17.  An error does not stick to its key.  Right after "called too many *)
(* times" the key has no entry.  The next request for a key whose last     *)
(* request failed with "called too many times", or failed with "called     *)
(* twice on id attribute" and removed the entry, takes the first           *)
(* invocation path and returns: it creates an entry with remaining         *)
(* count - 1 and sets prefix + token of that entry; the entry's flag was   *)
(* false at creation, so it is set only if this request is for attr "id".  *)
(***************************************************************************)
C17_ErrorsAreNotSticky ==
    /\ TooManyInvocationsError => key(options) \notin DOMAIN ids
    /\ (call.valid /\ call.prev.err # "") =>
          /\ ~call.called
          /\ thrown = NoError
          /\ call.key \in DOMAIN ids
          /\ ids[call.key][2] = (options.count.h \div 2) - 1
          /\ ids[call.key][3] = (options.attr.s = "id")
          /\ written = toString(options.prefix) \o ids[call.key][1]

\* the request after "called too many times" created the entry anew
C17_Witness ==
    /\ call.valid /\ ~call.called /\ thrown = NoError
    /\ call.prev.err = ": called too many times for '"
    /\ call.key \in DOMAIN ids

(***************************************************************************)
(* C16.  On a page where every generated token is fresh, no string is set  *)
(* as the "id" attribute by two requests that returned.                    *)
(***************************************************************************)
C16_NoIdSetTwice ==
    ~page.twice

\* the same key had its id set under one token, ran out, and had it set under
\* the next token
C16_Witness ==
    /\ \E v, w \in page.ids : v # w /\ Len(v) = Len(w)
    /\ thrown = NoError /\ requested /\ options.attr.s = "id"
    /\ written \in page.ids
====
